---- MODULE Spec2Model ----
(***************************************************************************)
(* A model of package actionsdk (src/actionsdk/actionsdk.go): the lazily   *)
(* parsed, package-level invocation record (GetArgs, GetMetadata), the     *)
(* secret lookup (GetSecret) and the stdout emitters (WriteResult,         *)
(* WriteError).                                                            *)
(*                                                                         *)
(* Spec       one control path: every exported function is one action.     *)
(* SpecEmit   one control path calling the two emitters.                   *)
(* SpecConc   several goroutines calling GetArgs / GetMetadata; every read *)
(*            and write of the unsynchronised package variable args and of *)
(*            the record it points to is a step of its own.                *)
(***************************************************************************)
EXTENDS Integers, Sequences, FiniteSets, TLC

\* Number of goroutines calling into the package in SpecConc.
NumThreads == 2
\* Number of emitter calls (WriteResult / WriteError) a run of SpecEmit makes.
MaxWrites == 2
\* Most bytes a failing write to os.Stdout stores before it fails.
MaxPartial == 1

VARIABLES
    osArgs,      \* os.Args: the program name followed by the positional arguments
    environ,     \* the process environment: a function from the set names to values
    args,        \* the package variable args: Nil or the address of a record in heap
    heap,        \* the Args records allocated so far; heap[a] is the record at address a
    stdout,      \* the bytes written to os.Stdout so far
    stderr,      \* the lines log.Fatal has written
    running,     \* FALSE once log.Fatal has called os.Exit(1)
    last,        \* Spec, SpecEmit: what the last call saw and returned
    pc,          \* SpecConc: where each goroutine is
    frame,       \* SpecConc: each goroutine's locals
    ret,         \* SpecConc: what each goroutine's last call returned
    errsSeen,    \* history: the errors GetArgs has returned so far
    firstOk,     \* history: address and content of the first record GetArgs returned
    decoded,     \* history: the addresses whose json.Unmarshal returned nil
    cacheWrites, \* history: how often line 119 has assigned args
    parses,      \* history: how often line 120 has parsed os.Args[1]
    handed,      \* history: the addresses GetArgs has returned to a caller
    emitLog      \* history: the emitter calls made, with their inputs and outcomes

vars == <<osArgs, environ, args, heap, stdout, stderr, running, last, pc, frame, ret,
          errsSeen, firstOk, decoded, cacheWrites, parses, handed, emitLog>>

decoderVars == <<args, heap>>
emitVars == <<stdout, stderr, running, emitLog>>
threadVars == <<pc, frame, ret>>
decoderHist == <<errsSeen, firstOk, decoded, cacheWrites, parses, handed>>

----------------------------------------------------------------------------
(* Values *)

\* The nil pointer.
Nil == 0

\* A Go error value: nil, or an error with a message.
NilErr == [isNil |-> TRUE, msg |-> ""]
Errorf(m) == [isNil |-> FALSE, msg |-> m]

\* Args{}: the zero value of the record. Metadata "" is the nil json.RawMessage,
\* Baggage is reduced to the name of the event it wraps.
ZeroArgs == [ArgsVersion |-> 0, Metadata |-> "", Baggage |-> ""]

\* The payloads a process is started with.
Prog == "action"
PayloadV1 == "{\"ArgsVersion\":1,\"Metadata\":{\"x\":5},\"Baggage\":{\"WorkspaceEvent\":{\"Event\":{\"name\":\"signup\"}}}}"
PayloadV2 == "{\"ArgsVersion\":2,\"Metadata\":\"str\"}"
PayloadNotJSON == "not json"
PayloadBadType == "{\"Metadata\":{\"x\":7},\"ArgsVersion\":\"one\"}"
Payloads == {PayloadV1, PayloadV2, PayloadNotJSON, PayloadBadType}
ArgvChoices == {<<Prog>>} \cup {<<Prog, p>> : p \in Payloads}

\* json.Unmarshal(data, *Args): the error it returns and the fields it stores, in
\* the order of the keys in data. A syntax error is found before anything is
\* stored; a value of the wrong type is skipped, the remaining keys are still
\* stored, and the first such error is returned.
UnmarshalArgs(data) ==
    CASE data = PayloadV1 ->
           [err |-> NilErr,
            writes |-> << <<"ArgsVersion", 1>>, <<"Metadata", "{\"x\":5}">>,
                          <<"Baggage", "signup">> >>]
      [] data = PayloadV2 ->
           [err |-> NilErr,
            writes |-> << <<"ArgsVersion", 2>>, <<"Metadata", "\"str\"">> >>]
      [] data = PayloadBadType ->
           [err |-> Errorf("json: cannot unmarshal string into Go struct field Args.ArgsVersion of type int"),
            writes |-> << <<"Metadata", "{\"x\":7}">> >>]
      [] OTHER ->
           [err |-> Errorf("invalid character 'o' in literal null (expecting 'u')"),
            writes |-> << >>]

\* One field of a record stored.
Store(rec, w) == [rec EXCEPT ![w[1]] = w[2]]

\* All the stores of a decode applied to a record, first to last.
RECURSIVE StoreAll(_, _)
StoreAll(rec, ws) ==
    IF ws = << >> THEN rec ELSE StoreAll(Store(rec, Head(ws)), Tail(ws))

\* The destinations a caller hands to GetMetadata: a pointer to struct{X int}
\* or a pointer to a string, each holding its zero value.
DestKinds == {"struct", "string"}
ZeroDest(k) == IF k = "struct" THEN [X |-> 0] ELSE [S |-> ""]

\* json.Unmarshal(args.Metadata, dest): the error and the destination afterwards.
UnmarshalMetadata(meta, k) ==
    CASE meta = "" ->
           [err |-> Errorf("unexpected end of JSON input"), dest |-> ZeroDest(k)]
      [] meta = "{\"x\":5}" /\ k = "struct" -> [err |-> NilErr, dest |-> [X |-> 5]]
      [] meta = "{\"x\":7}" /\ k = "struct" -> [err |-> NilErr, dest |-> [X |-> 7]]
      [] meta = "\"str\"" /\ k = "string" -> [err |-> NilErr, dest |-> [S |-> "str"]]
      [] meta = "\"str\"" /\ k = "struct" ->
           [err |-> Errorf("json: cannot unmarshal string into Go value of type struct { X int }"),
            dest |-> ZeroDest(k)]
      [] OTHER ->
           [err |-> Errorf("json: cannot unmarshal object into Go value of type string"),
            dest |-> ZeroDest(k)]

\* The errors of GetArgs.
ErrNoArguments == Errorf("no arguments present")
\* (variant: the parse error is dropped from the message)
ErrUnableToParseBare(err) == Errorf("unable to parse arguments")
ErrUnableToParse(err) == Errorf("unable to parse arguments: " \o err.msg)

\* The environment: names and the values they may be set to.
EnvNames == {"FOO", "BAR"}
EnvValues == {"", "s3cret", "hunter2"}
Environs == UNION {[S -> EnvValues] : S \in SUBSET EnvNames}

\* os.Getenv: the value, or "" when the name is not set.
Getenv(env, name) == IF name \in DOMAIN env THEN env[name] ELSE ""

\* What `last` holds before any call.
NoCall ==
    [op |-> "none", rec |-> Nil, err |-> NilErr, hit |-> FALSE, parsed |-> FALSE,
     first |-> FALSE, argv |-> << >>, preArgs |-> Nil, postArgs |-> Nil,
     name |-> "", env |-> << >>, val |-> "", destKind |-> "", dest |-> << >>,
     tried |-> FALSE, input |-> << >>, returned |-> TRUE, failed |-> FALSE,
     preStdout |-> ""]

----------------------------------------------------------------------------
(* The state after package initialisation: no record, nothing written. *)

Init ==
    /\ osArgs \in ArgvChoices
    /\ environ \in Environs
    /\ args = Nil
    /\ heap = << >>
    /\ stdout = ""
    /\ stderr = << >>
    /\ running = TRUE
    /\ last = NoCall
    /\ pc = [t \in 1..NumThreads |-> "idle"]
    /\ frame = [t \in 1..NumThreads |-> << >>]
    /\ ret = [t \in 1..NumThreads |-> << >>]
    /\ errsSeen = {}
    /\ firstOk = << >>
    /\ decoded = {}
    /\ cacheWrites = 0
    /\ parses = 0
    /\ handed = {}
    /\ emitLog = << >>

----------------------------------------------------------------------------
(* One control path: each exported function is one action. *)

\* (variant of GetArgsCall: the test of line 109 is missing, every call parses)
GetArgsCallNoCache(a, h, argv) ==
    IF Len(argv) < 2 THEN
        [args |-> a, heap |-> h, rec |-> Nil, err |-> ErrNoArguments,
         hit |-> FALSE, wrote |-> FALSE, parsed |-> FALSE, ok |-> FALSE]
    ELSE
        LET new == Len(h) + 1
            u == UnmarshalArgs(argv[2])
            h2 == Append(h, StoreAll(ZeroArgs, u.writes))
        IN  IF ~u.err.isNil THEN
                [args |-> new, heap |-> h2, rec |-> Nil, err |-> ErrUnableToParse(u.err),
                 hit |-> FALSE, wrote |-> TRUE, parsed |-> TRUE, ok |-> FALSE]
            ELSE
                [args |-> new, heap |-> h2, rec |-> new, err |-> NilErr,
                 hit |-> FALSE, wrote |-> TRUE, parsed |-> TRUE, ok |-> TRUE]

\* GetArgs (lines 108-125) as a function of the cache, the heap and os.Args:
\* the cache and heap afterwards, the record and error returned, and whether
\* the call returned the cached record (hit), assigned args (wrote) and parsed
\* os.Args[1] (parsed; ok when json.Unmarshal returned nil).
GetArgsCall(a, h, argv) ==
    IF a # Nil THEN
        [args |-> a, heap |-> h, rec |-> a, err |-> NilErr,
         hit |-> TRUE, wrote |-> FALSE, parsed |-> FALSE, ok |-> FALSE]
    ELSE IF Len(argv) < 2 THEN
        [args |-> a, heap |-> h, rec |-> Nil, err |-> ErrNoArguments,
         hit |-> FALSE, wrote |-> FALSE, parsed |-> FALSE, ok |-> FALSE]
    ELSE
        LET new == Len(h) + 1
            u == UnmarshalArgs(argv[2])
            h2 == Append(h, StoreAll(ZeroArgs, u.writes))
        IN  IF ~u.err.isNil THEN
                [args |-> new, heap |-> h2, rec |-> Nil, err |-> ErrUnableToParse(u.err),
                 hit |-> FALSE, wrote |-> TRUE, parsed |-> TRUE, ok |-> FALSE]
            ELSE
                [args |-> new, heap |-> h2, rec |-> new, err |-> NilErr,
                 hit |-> FALSE, wrote |-> TRUE, parsed |-> TRUE, ok |-> TRUE]

\* The history variables after a GetArgs call c.
NoteGetArgs(c) ==
    /\ errsSeen' = IF c.err.isNil THEN errsSeen ELSE errsSeen \cup {c.err}
    /\ firstOk' = IF firstOk = << >> /\ c.rec # Nil
                  THEN [addr |-> c.rec, val |-> c.heap[c.rec]] ELSE firstOk
    /\ decoded' = IF c.ok THEN decoded \cup {c.args} ELSE decoded
    /\ cacheWrites' = IF c.wrote THEN cacheWrites + 1 ELSE cacheWrites
    /\ parses' = IF c.parsed THEN parses + 1 ELSE parses
    /\ handed' = IF c.rec # Nil THEN handed \cup {c.rec} ELSE handed

\* What `last` records of a GetArgs call c made in the current state.
SeenGetArgs(c) ==
    [NoCall EXCEPT !.rec = c.rec, !.err = c.err, !.hit = c.hit, !.parsed = c.parsed,
                   !.first = (firstOk = << >> /\ c.rec # Nil),
                   !.argv = osArgs, !.preArgs = args, !.postArgs = c.args]

\* func GetArgs() (*Args, error)
GetArgs ==
    /\ running
    /\ LET c == GetArgsCall(args, heap, osArgs)
       IN  /\ args' = c.args
           /\ heap' = c.heap
           /\ last' = [SeenGetArgs(c) EXCEPT !.op = "GetArgs"]
           /\ NoteGetArgs(c)
    /\ UNCHANGED <<osArgs, environ, emitVars, threadVars>>

\* func GetMetadata(dest interface{}) error, dest pointing to a zero value of kind k
GetMetadata(k) ==
    /\ running
    /\ LET c == GetArgsCall(args, heap, osArgs)
           m == UnmarshalMetadata(c.heap[c.rec].Metadata, k)
       IN  /\ args' = c.args
           /\ heap' = c.heap
           /\ last' = IF ~c.err.isNil
                      THEN [SeenGetArgs(c) EXCEPT !.op = "GetMetadata", !.destKind = k,
                                                  !.dest = ZeroDest(k), !.tried = FALSE]
                      ELSE [SeenGetArgs(c) EXCEPT !.op = "GetMetadata", !.destKind = k,
                                                  !.dest = m.dest, !.tried = TRUE,
                                                  !.err = m.err]
           /\ NoteGetArgs(c)
    /\ UNCHANGED <<osArgs, environ, emitVars, threadVars>>

\* (variant of GetSecretCall: os.LookupEnv's "is set" decides, not the value)
GetSecretCallLookupEnv(env, str) ==
    IF str \in DOMAIN env
    THEN [val |-> env[str], err |-> NilErr]
    ELSE [val |-> "", err |-> Errorf("secret not found: " \o str)]

\* GetSecret (lines 101-106) as a function of the environment: the value and
\* the error returned.
GetSecretCall(env, str) ==
    LET secret == Getenv(env, str)
    IN  IF secret # ""
        THEN [val |-> secret, err |-> NilErr]
        ELSE [val |-> "", err |-> Errorf("secret not found: " \o str)]

\* func GetSecret(str string) (string, error)
GetSecret(str) ==
    /\ running
    /\ UNCHANGED <<osArgs, environ, decoderVars, emitVars, threadVars, decoderHist>>
    /\ LET c == GetSecretCall(environ, str)
       IN  last' = [NoCall EXCEPT !.op = "GetSecret", !.name = str, !.env = environ,
                                 !.val = c.val, !.err = c.err,
                                 !.preArgs = args, !.postArgs = args']

\* The caller assigns os.Args between two calls (what a test of the cache does).
SetOsArgs ==
    /\ running
    /\ osArgs' \in ArgvChoices \ {osArgs}
    /\ UNCHANGED <<environ, decoderVars, emitVars, last, threadVars, decoderHist>>

\* os.Setenv(name, v)
Setenv(name, v) ==
    /\ running
    /\ environ' = [n \in DOMAIN environ \cup {name} |-> IF n = name THEN v ELSE environ[n]]
    /\ environ' # environ
    /\ UNCHANGED <<osArgs, decoderVars, emitVars, last, threadVars, decoderHist>>

\* os.Unsetenv(name)
Unsetenv(name) ==
    /\ running
    /\ name \in DOMAIN environ
    /\ environ' = [n \in DOMAIN environ \ {name} |-> environ[n]]
    /\ UNCHANGED <<osArgs, decoderVars, emitVars, last, threadVars, decoderHist>>

Next ==
    \/ GetArgs
    \/ \E k \in DestKinds : GetMetadata(k)
    \/ \E n \in EnvNames : GetSecret(n)
    \/ SetOsArgs
    \/ \E n \in EnvNames, v \in EnvValues : Setenv(n, v)
    \/ \E n \in EnvNames : Unsetenv(n)

Spec == Init /\ [][Next]_vars

----------------------------------------------------------------------------
(* The emitters. *)

\* The values handed to WriteResult: nil, map[string]int{"a": 1}, the string
\* "hi", and a channel, which encoding/json cannot encode.
GoNil == [kind |-> "nil"]
ResultValues == {GoNil, [kind |-> "map", a |-> 1], [kind |-> "string", s |-> "hi"],
                 [kind |-> "chan"]}

\* The messages of the errors handed to WriteError.
ErrorMessages == {"boom", "say \"hi\""}

\* json.Marshal of a string: quoted, with the quotes inside it escaped.
MarshalString(str) ==
    CASE str = "hi" -> "\"hi\""
      [] str = "boom" -> "\"boom\""
      [] str = "say \"hi\"" -> "\"say \\\"hi\\\"\""

\* json.Marshal(i) for the values above: the bytes and the error.
Marshal(i) ==
    CASE i.kind = "map" -> [byt |-> "{\"a\":1}", err |-> NilErr]
      [] i.kind = "string" -> [byt |-> MarshalString(i.s), err |-> NilErr]
      [] i.kind = "error" -> [byt |-> "{\"error\":" \o MarshalString(i.msg) \o "}",
                              err |-> NilErr]
      [] OTHER -> [byt |-> "", err |-> Errorf("json: unsupported type: chan int")]

\* The byte counts fmt.Fprint(os.Stdout, str) may return: all of str, or fewer
\* with an error.
WriteCounts(str) ==
    {Len(str)} \cup {n \in 0..MaxPartial : n < Len(str)}

\* (variant of Fprint: fmt.Fprintln, a newline follows a complete write)
Fprintln(out, str, n) ==
    [out |-> out \o SubSeq(str, 1, n) \o (IF n = Len(str) THEN "\n" ELSE ""),
     err |-> IF n = Len(str) THEN NilErr ELSE Errorf("write /dev/stdout: broken pipe")]

\* fmt.Fprint(os.Stdout, str) that stored n bytes: stdout afterwards and the error.
Fprint(out, str, n) ==
    [out |-> out \o SubSeq(str, 1, n),
     err |-> IF n = Len(str) THEN NilErr ELSE Errorf("write /dev/stdout: broken pipe")]

\* func WriteResult(i interface{}) error
WriteResult(i) ==
    /\ running
    /\ Len(emitLog) < MaxWrites
    /\ IF i = GoNil THEN
           \E n \in WriteCounts("{}") :
               LET w == Fprint(stdout, "{}", n)
               IN  /\ stdout' = w.out
                   /\ last' = [NoCall EXCEPT !.op = "WriteResult", !.input = i,
                                             !.err = w.err, !.failed = ~w.err.isNil,
                                             !.preStdout = stdout]
                   /\ emitLog' = Append(emitLog, [op |-> "WriteResult", input |-> i,
                                                  ok |-> w.err.isNil])
       ELSE
           LET m == Marshal(i)
           IN  IF ~m.err.isNil THEN
                   /\ stdout' = stdout
                   /\ last' = [NoCall EXCEPT !.op = "WriteResult", !.input = i,
                                             !.err = Errorf("error writing output: " \o m.err.msg),
                                             !.preStdout = stdout]
                   /\ emitLog' = Append(emitLog, [op |-> "WriteResult", input |-> i,
                                                  ok |-> FALSE])
               ELSE
                   \E n \in WriteCounts(m.byt) :
                       LET w == Fprint(stdout, m.byt, n)
                       IN  /\ stdout' = w.out
                           /\ last' = [NoCall EXCEPT !.op = "WriteResult", !.input = i,
                                                     !.err = w.err, !.failed = ~w.err.isNil,
                                                     !.preStdout = stdout]
                           /\ emitLog' = Append(emitLog, [op |-> "WriteResult", input |-> i,
                                                          ok |-> w.err.isNil])
    /\ UNCHANGED <<osArgs, environ, decoderVars, stderr, running, threadVars, decoderHist>>

\* (variant of LogFatal: log.Print, the process goes on)
LogPrint(v) == [stderr |-> Append(stderr, v), running |-> TRUE]

\* log.Fatal(v): the line is written to stderr and os.Exit(1) ends the process.
LogFatal(v) == [stderr |-> Append(stderr, v), running |-> FALSE]

\* func WriteError(err error), err an error with message msg. A call that ends
\* in log.Fatal does not return.
WriteError(msg) ==
    /\ running
    /\ Len(emitLog) < MaxWrites
    /\ LET m == Marshal([kind |-> "error", msg |-> msg])
       IN  IF ~m.err.isNil THEN
               LET f == LogFatal("unable to marshal error: " \o m.err.msg)
               IN  /\ stdout' = stdout
                   /\ stderr' = f.stderr
                   /\ running' = f.running
                   /\ last' = [NoCall EXCEPT !.op = "WriteError", !.input = msg,
                                             !.failed = TRUE, !.returned = f.running,
                                             !.preStdout = stdout]
                   /\ emitLog' = Append(emitLog, [op |-> "WriteError", input |-> msg,
                                                  ok |-> FALSE])
           ELSE
               \E n \in WriteCounts(m.byt) :
                   LET w == Fprint(stdout, m.byt, n)
                       f == IF w.err.isNil THEN [stderr |-> stderr, running |-> TRUE]
                            ELSE LogFatal("unable to write error: " \o w.err.msg)
                   IN  /\ stdout' = w.out
                       /\ stderr' = f.stderr
                       /\ running' = f.running
                       /\ last' = [NoCall EXCEPT !.op = "WriteError", !.input = msg,
                                                 !.failed = ~w.err.isNil,
                                                 !.returned = f.running,
                                                 !.preStdout = stdout]
                       /\ emitLog' = Append(emitLog, [op |-> "WriteError", input |-> msg,
                                                      ok |-> w.err.isNil])
    /\ UNCHANGED <<osArgs, environ, decoderVars, threadVars, decoderHist>>

NextEmit ==
    \/ \E i \in ResultValues : WriteResult(i)
    \/ \E msg \in ErrorMessages : WriteError(msg)

SpecEmit == Init /\ [][NextEmit]_vars

----------------------------------------------------------------------------
(* Several goroutines. Nothing orders their accesses to args and to the    *)
(* record behind it, so each access is a step: the test of line 109, the   *)
(* reads of args at lines 110, 120 and 124, the assignment of line 119 and *)
(* every field json.Unmarshal stores. A read returns the value stored      *)
(* last; the steps of different goroutines interleave freely.              *)

Threads == 1..NumThreads

\* The locals of a goroutine inside a call: the function called, the kind of
\* dest (GetMetadata), the record json.Unmarshal decodes into, the stores it
\* has still to make, its error, and the record GetArgs returned.
NewFrame(op, k) ==
    [op |-> op, k |-> k, target |-> Nil, pending |-> << >>, err |-> NilErr, rec |-> Nil]

\* A goroutine calls GetArgs.
CallGetArgs(t) ==
    /\ running
    /\ pc[t] = "idle"
    /\ pc' = [pc EXCEPT ![t] = "L109"]
    /\ frame' = [frame EXCEPT ![t] = NewFrame("GetArgs", "")]
    /\ UNCHANGED <<osArgs, environ, decoderVars, emitVars, last, ret, decoderHist>>

\* A goroutine calls GetMetadata, which calls GetArgs (line 92).
CallGetMetadata(t, k) ==
    /\ running
    /\ pc[t] = "idle"
    /\ pc' = [pc EXCEPT ![t] = "L109"]
    /\ frame' = [frame EXCEPT ![t] = NewFrame("GetMetadata", k)]
    /\ UNCHANGED <<osArgs, environ, decoderVars, emitVars, last, ret, decoderHist>>

\* GetArgs returns (rec, err) to goroutine t: to the caller of GetArgs, or to
\* GetMetadata, which returns the error (lines 93-95) or goes on to line 96.
ReturnFromGetArgs(t, rec, err) ==
    /\ IF frame[t].op = "GetArgs" THEN
           /\ pc' = [pc EXCEPT ![t] = "idle"]
           /\ frame' = [frame EXCEPT ![t] = << >>]
           /\ ret' = [ret EXCEPT ![t] = [op |-> "GetArgs", rec |-> rec, err |-> err]]
       ELSE IF ~err.isNil THEN
           /\ pc' = [pc EXCEPT ![t] = "idle"]
           /\ frame' = [frame EXCEPT ![t] = << >>]
           /\ ret' = [ret EXCEPT ![t] = [op |-> "GetMetadata", err |-> err,
                                         dest |-> ZeroDest(frame[t].k)]]
       ELSE
           /\ pc' = [pc EXCEPT ![t] = "L96"]
           /\ frame' = [frame EXCEPT ![t].rec = rec]
           /\ ret' = ret
    /\ errsSeen' = IF err.isNil THEN errsSeen ELSE errsSeen \cup {err}
    /\ firstOk' = IF firstOk = << >> /\ rec # Nil
                  THEN [addr |-> rec, val |-> heap[rec]] ELSE firstOk
    /\ handed' = IF rec # Nil THEN handed \cup {rec} ELSE handed

\* line 109: if args != nil
L109(t) ==
    /\ pc[t] = "L109"
    /\ pc' = [pc EXCEPT ![t] = IF args # Nil THEN "L110" ELSE "L115"]
    /\ UNCHANGED <<osArgs, environ, decoderVars, emitVars, last, frame, ret, decoderHist>>

\* line 110: return args, nil
L110(t) ==
    /\ pc[t] = "L110"
    /\ ReturnFromGetArgs(t, args, NilErr)
    /\ UNCHANGED <<osArgs, environ, decoderVars, emitVars, last, decoded, cacheWrites, parses>>

\* lines 115-117: if len(os.Args) < 2 { return nil, fmt.Errorf(...) }
L115(t) ==
    /\ pc[t] = "L115"
    /\ IF Len(osArgs) < 2
       THEN ReturnFromGetArgs(t, Nil, ErrNoArguments)
       ELSE /\ pc' = [pc EXCEPT ![t] = "L119"]
            /\ UNCHANGED <<frame, ret, errsSeen, firstOk, handed>>
    /\ UNCHANGED <<osArgs, environ, decoderVars, emitVars, last, decoded, cacheWrites, parses>>

\* line 119: args = &Args{}
L119(t) ==
    /\ pc[t] = "L119"
    /\ heap' = Append(heap, ZeroArgs)
    /\ args' = Len(heap) + 1
    /\ cacheWrites' = cacheWrites + 1
    /\ pc' = [pc EXCEPT ![t] = "L120"]
    /\ UNCHANGED <<osArgs, environ, emitVars, last, frame, ret, errsSeen, firstOk,
                   decoded, parses, handed>>

\* line 120: json.Unmarshal([]byte(os.Args[1]), args) is entered: its arguments
\* are read (args is the package variable, read again) and the input is scanned.
L120(t) ==
    /\ pc[t] = "L120"
    /\ LET u == UnmarshalArgs(osArgs[2])
       IN  frame' = [frame EXCEPT ![t].target = args, ![t].pending = u.writes,
                                  ![t].err = u.err]
    /\ parses' = parses + 1
    /\ pc' = [pc EXCEPT ![t] = "decode"]
    /\ UNCHANGED <<osArgs, environ, decoderVars, emitVars, last, ret, errsSeen, firstOk,
                   decoded, cacheWrites, handed>>

\* line 120, inside json.Unmarshal: the next field is stored in the record.
Decode(t) ==
    /\ pc[t] = "decode"
    /\ frame[t].pending # << >>
    /\ heap' = [heap EXCEPT ![frame[t].target] = Store(@, Head(frame[t].pending))]
    /\ frame' = [frame EXCEPT ![t].pending = Tail(@)]
    /\ UNCHANGED <<osArgs, environ, args, emitVars, last, pc, ret, decoderHist>>

\* lines 120-122: json.Unmarshal has returned; if err != nil { return nil, ... }
L121(t) ==
    /\ pc[t] = "decode"
    /\ frame[t].pending = << >>
    /\ IF ~frame[t].err.isNil
       THEN /\ ReturnFromGetArgs(t, Nil, ErrUnableToParse(frame[t].err))
            /\ decoded' = decoded
       ELSE /\ pc' = [pc EXCEPT ![t] = "L124"]
            /\ decoded' = decoded \cup {frame[t].target}
            /\ UNCHANGED <<frame, ret, errsSeen, firstOk, handed>>
    /\ UNCHANGED <<osArgs, environ, decoderVars, emitVars, last, cacheWrites, parses>>

\* line 124: return args, nil
L124(t) ==
    /\ pc[t] = "L124"
    /\ ReturnFromGetArgs(t, args, NilErr)
    /\ UNCHANGED <<osArgs, environ, decoderVars, emitVars, last, decoded, cacheWrites, parses>>

\* line 96: return json.Unmarshal(args.Metadata, dest), args the local of line 92
L96(t) ==
    /\ pc[t] = "L96"
    /\ LET m == UnmarshalMetadata(heap[frame[t].rec].Metadata, frame[t].k)
       IN  ret' = [ret EXCEPT ![t] = [op |-> "GetMetadata", err |-> m.err, dest |-> m.dest]]
    /\ pc' = [pc EXCEPT ![t] = "idle"]
    /\ frame' = [frame EXCEPT ![t] = << >>]
    /\ UNCHANGED <<osArgs, environ, decoderVars, emitVars, last, decoderHist>>

NextConc ==
    \E t \in Threads :
        \/ CallGetArgs(t)
        \/ \E k \in DestKinds : CallGetMetadata(t, k)
        \/ L109(t)
        \/ L110(t)
        \/ L115(t)
        \/ L119(t)
        \/ L120(t)
        \/ Decode(t)
        \/ L121(t)
        \/ L124(t)
        \/ L96(t)

SpecConc == Init /\ [][NextConc]_vars

----------------------------------------------------------------------------
(* Properties of the payload decoder on one control path (Spec). *)

\* The error GetArgs owes a caller that finds no usable argument in argv.
DecoderError(argv) ==
    IF Len(argv) < 2
    THEN Errorf("no arguments present")
    ELSE Errorf("unable to parse arguments: " \o UnmarshalArgs(argv[2]).err.msg)

\* C1: a failed parse does not poison the cache. After a GetArgs call that
\* parsed os.Args[1] and failed, args is still nil; and args is only ever set
\* to a record whose parse succeeded.
C1_FailedParseLeavesCacheUnset ==
    /\ (last.op = "GetArgs" /\ last.parsed /\ ~last.err.isNil) => last.postArgs = Nil
    /\ args # Nil => args \in decoded

\* C2: once GetArgs has returned a record, every later GetArgs call returns
\* that record (same address, same content) with a nil error, from the cache
\* and without parsing os.Args, whatever os.Args holds by then.
C2_CachedRecordReturned ==
    (last.op = "GetArgs" /\ firstOk # << >> /\ ~last.first) =>
        /\ last.err.isNil
        /\ last.rec = firstOk.addr
        /\ heap[last.rec] = firstOk.val
        /\ last.hit
        /\ ~last.parsed
        /\ last.postArgs = last.preArgs

\* C2 witness: a later call made with os.Args cut down to the program name got
\* the record an earlier, successful parse produced.
C2_Witness ==
    /\ last.op = "GetArgs"
    /\ firstOk # << >>
    /\ ~last.first
    /\ Len(last.argv) < 2
    /\ last.rec \in decoded

\* C3: with the cache unset, GetArgs without a positional argument returns
\* (nil, "no arguments present") and leaves the cache unset; with an argument
\* it parses it, and if the argument does not decode it returns nil and an
\* error whose message ends in the parse error.
C3_DecoderErrors ==
    (last.op = "GetArgs" /\ last.preArgs = Nil) =>
        IF Len(last.argv) < 2 THEN
            /\ last.rec = Nil
            /\ last.err = Errorf("no arguments present")
            /\ last.postArgs = Nil
            /\ ~last.parsed
        ELSE
            /\ last.parsed
            /\ ~UnmarshalArgs(last.argv[2]).err.isNil =>
                   /\ last.rec = Nil
                   /\ last.err = Errorf("unable to parse arguments: "
                                        \o UnmarshalArgs(last.argv[2]).err.msg)

\* C3 witness: after a call failed for want of an argument, and one was then
\* supplied, a call parsed it; the supplied argument was not valid JSON and
\* the call returned the wrapped parse error.
C3_Witness ==
    /\ last.op = "GetArgs"
    /\ last.parsed
    /\ Errorf("no arguments present") \in errsSeen
    /\ last.argv = <<Prog, PayloadNotJSON>>
    /\ last.rec = Nil
    /\ ~last.err.isNil

\* C6: in a process where no parse has succeeded, every GetMetadata call
\* returns the decoder's error for its os.Args and does not decode Metadata.
C6_MetadataPropagatesDecoderErrors ==
    (last.op = "GetMetadata" /\ decoded = {}) =>
        /\ ~last.tried
        /\ last.err = DecoderError(last.argv)

\* C9: GetSecret returns the value and a nil error when the name is set to a
\* non-empty value, and "" with "secret not found: <name>" when the name is
\* unset or set to ""; the cache is what it was.
C9_GetSecret ==
    last.op = "GetSecret" =>
        /\ IF last.name \in DOMAIN last.env /\ last.env[last.name] # ""
           THEN last.val = last.env[last.name] /\ last.err.isNil
           ELSE last.val = "" /\ last.err = Errorf("secret not found: " \o last.name)
        /\ last.postArgs = last.preArgs

\* C9 witness: a lookup of a name that is set, to the empty string, made in a
\* process whose cache holds a record.
C9_Witness ==
    /\ last.op = "GetSecret"
    /\ last.name \in DOMAIN last.env
    /\ last.env[last.name] = ""
    /\ last.preArgs # Nil
    /\ ~last.err.isNil

\* C10: GetArgs returns a record with a nil error only if a parse of
\* os.Args[1] into that record has completed successfully.
C10_SuccessOnlyAfterParse ==
    (last.op = "GetArgs" /\ last.err.isNil /\ last.rec # Nil) => last.rec \in decoded

----------------------------------------------------------------------------
(* Properties of the emitters (SpecEmit). *)

\* What one emitter call is to put on stdout.
Fragment(op, input) ==
    IF op = "WriteResult" THEN
        CASE input.kind = "nil" -> "{}"
          [] input.kind = "map" -> "{\"a\":1}"
          [] input.kind = "string" -> "\"hi\""
          [] OTHER -> ""
    ELSE
        CASE input = "boom" -> "{\"error\":\"boom\"}"
          [] OTHER -> "{\"error\":\"say \\\"hi\\\"\"}"

RECURSIVE Fragments(_)
Fragments(log) ==
    IF log = << >> THEN ""
    ELSE Fragment(Head(log).op, Head(log).input) \o Fragments(Tail(log))

\* C7: after emitter calls that all succeeded, stdout is the concatenation of
\* their outputs in call order, with nothing between or after them.
C7_Concatenation ==
    (\A i \in 1..Len(emitLog) : emitLog[i].ok) => stdout = Fragments(emitLog)

\* C7 witness: a WriteResult and then a WriteError, both successful.
C7_Witness ==
    /\ Len(emitLog) >= 2
    /\ emitLog[1].op = "WriteResult"
    /\ emitLog[2].op = "WriteError"
    /\ emitLog[1].ok
    /\ emitLog[2].ok

\* The last emitter call put its whole output on stdout.
WroteAll == stdout = last.preStdout \o Fragment(last.op, last.input)

\* C8: a WriteResult call returns and leaves the process running, with an
\* error when the value cannot be encoded (stdout untouched) or the write
\* fell short; a WriteError call whose write fell short ends the process and
\* does not return; one that wrote everything returns and the process runs on.
C8_FailureHandling ==
    /\ last.op = "WriteResult" =>
           /\ running
           /\ last.returned
           /\ last.input.kind = "chan" => (~last.err.isNil /\ stdout = last.preStdout)
           /\ ~WroteAll => ~last.err.isNil
    /\ last.op = "WriteError" =>
           IF WroteAll THEN running /\ last.returned
           ELSE ~running /\ ~last.returned

\* C8 witness: a WriteError call whose write failed ended the process after an
\* earlier WriteResult call had returned an error.
C8_Witness ==
    /\ last.op = "WriteError"
    /\ ~running
    /\ Len(emitLog) >= 2
    /\ emitLog[1].op = "WriteResult"
    /\ ~emitLog[1].ok

----------------------------------------------------------------------------
(* Properties of the payload decoder under concurrent callers (SpecConc). *)

\* C4: a record GetArgs has returned is never modified afterwards, and the
\* cache never changes from one record to another.
C4_RecordImmutable ==
    [][/\ \A a \in handed : heap'[a] = heap[a]
       /\ args # Nil => args' = args]_vars

\* C5: with a valid argument, concurrent first calls collapse into a single
\* parse: args is assigned at most once, os.Args[1] is parsed at most once and
\* all callers are returned the same record.
C5_SingleParse ==
    (Len(osArgs) >= 2 /\ UnmarshalArgs(osArgs[2]).err.isNil) =>
        /\ cacheWrites <= 1
        /\ parses <= 1
        /\ Cardinality(handed) <= 1

====
